---- MODULE Spec2Model ----
(***************************************************************************)
(* A model of the routing-and-dispatch engine of the ai-agent repository:  *)
(* EnhancedMultiModelRouter (registry, scorer, router, execution adapter), *)
(* SimpleAIAgent (ledger conversation_history) and MultimodalAIAgent       *)
(* (hard-coded routing table, ledger session_logs).                        *)
(*                                                                         *)
(* Money is kept exact: a "cost" of the registry and a budget are integers *)
(* in units of 1e-4 dollar (0.03 -> 300, 1.0 -> 10000); the cost of one    *)
(* response, tokens * cost / 1000, is an integer in units of 1e-7 dollar.  *)
(* Python's None is the string NoneValue; no backend has that name.        *)
(***************************************************************************)
EXTENDS Integers, Sequences, FiniteSets, TLC

VARIABLES
    env,            \* os.environ: the credentials present when the router was built
    models,         \* EnhancedMultiModelRouter.models, in insertion order
    sel,            \* the latest select_best_model call: its arguments, scores and return
    prev,           \* the select_best_model call before sel (kept by RepeatSelect only)
    result,         \* the latest return of generate_response / get_* / process
    backend_call,   \* the backend call the latest operation made, or NoBackendCall
    conversation_history,  \* SimpleAIAgent.conversation_history
    agent_env,      \* os.environ when MultimodalAIAgent was built
    api_clients,    \* MultimodalAIAgent: the *_client attributes that are not None
    local_models,   \* MultimodalAIAgent.models: the keys of the local models loaded
    routing,        \* the latest intelligent_model_routing call and its return
    session_logs,   \* MultimodalAIAgent.session_logs
    conversation_memory,   \* MultimodalAIAgent.conversation_memory
    requests,       \* the process_text_input coroutines and where each one stands
    calls,          \* the generate_response coroutines on one event loop
    user_sessions   \* TelegramBot.user_sessions

routerVars == <<env, models, sel, prev, result, backend_call>>
simpleVars == <<conversation_history>>
hostVars == <<calls, user_sessions>>
ledgerVars == <<session_logs, conversation_memory, requests>>
agentVars == <<agent_env, api_clients, local_models, routing, session_logs,
              conversation_memory, requests>>
vars == <<env, models, sel, prev, result, backend_call, conversation_history,
          agent_env, api_clients, local_models, routing, session_logs,
          conversation_memory, requests, calls, user_sessions>>

NoneValue == "None"

\* The ledger lengths explored.
MaxHistory == 2

(***************************************************************************)
(* The registry: initialize_models                                         *)
(***************************************************************************)
Credentials ==
    {"OPENAI_API_KEY", "ANTHROPIC_API_KEY", "GOOGLE_API_KEY", "COPILOT_API_KEY",
     "ZENCODER_API_KEY"}

\* One registry entry: the key of self.models and the dictionary stored under it.
\* client is the family of the client object (what str(type(client)) or
\* client.__name__ shows), credential the environment variable that guards it.
Descriptor(name, credential, client, model_name, strengths, cost, speed) ==
    [name |-> name, credential |-> credential, client |-> client,
     model_name |-> model_name, strengths |-> strengths, cost |-> cost,
     speed |-> speed]

\* Every entry initialize_models can register, in the order it registers them.
Catalog ==
    << Descriptor("gpt-4", "OPENAI_API_KEY", "openai", "gpt-4",
                  {"reasoning", "coding", "analysis"}, 300, "medium"),
       Descriptor("gpt-4-turbo", "OPENAI_API_KEY", "openai", "gpt-4-turbo-preview",
                  {"reasoning", "coding", "analysis", "speed"}, 100, "fast"),
       Descriptor("gpt-3.5-turbo", "OPENAI_API_KEY", "openai", "gpt-3.5-turbo",
                  {"speed", "cost-effective", "general"}, 20, "fast"),
       Descriptor("claude-3-opus", "ANTHROPIC_API_KEY", "anthropic",
                  "claude-3-opus-20240229",
                  {"creative", "analysis", "safety", "reasoning"}, 750, "slow"),
       Descriptor("claude-3-sonnet", "ANTHROPIC_API_KEY", "anthropic",
                  "claude-3-sonnet-20240229",
                  {"balanced", "coding", "analysis"}, 150, "medium"),
       Descriptor("claude-3-haiku", "ANTHROPIC_API_KEY", "anthropic",
                  "claude-3-haiku-20240307",
                  {"speed", "cost-effective"}, 25, "fast"),
       Descriptor("gemini-pro", "GOOGLE_API_KEY", "google", "gemini-pro",
                  {"multimodal", "reasoning", "multilingual"}, 5, "medium"),
       Descriptor("gemini-pro-vision", "GOOGLE_API_KEY", "google", "gemini-pro-vision",
                  {"vision", "multimodal", "analysis"}, 25, "medium"),
       Descriptor("copilot", "COPILOT_API_KEY", "openai", "gpt-4",
                  {"coding", "development", "github"}, 200, "medium"),
       Descriptor("zencoder", "ZENCODER_API_KEY", "openai", "zencoder-v1",
                  {"specialized", "custom"}, 100, "medium") >>

RECURSIVE FilterSeq(_, _)
\* The entries of seq whose credential is in e, in order.
FilterSeq(seq, e) ==
    IF seq = <<>> THEN <<>>
    ELSE IF Head(seq).credential \in e
         THEN <<Head(seq)>> \o FilterSeq(Tail(seq), e)
         ELSE FilterSeq(Tail(seq), e)

\* initialize_models: each provider block runs iff its credential is set.
InitializeModels(e) ==
    FilterSeq(Catalog, e)

Keys(reg) == {reg[i].name : i \in DOMAIN reg}

CatalogNames == Keys(Catalog)

\* The entry stored under a key (self.models[name]).
Lookup(reg, name) ==
    reg[CHOOSE i \in DOMAIN reg : reg[i].name = name]

(***************************************************************************)
(* The scorer and the router: select_best_model                            *)
(***************************************************************************)
\* Lines 133-162: the task-specific bonus.
TaskScore(m, task_type) ==
    CASE task_type = "coding" ->
            (IF "coding" \in m.strengths THEN 30 ELSE 0)
          + (IF "reasoning" \in m.strengths THEN 20 ELSE 0)
          + (IF m.name \in {"copilot", "gpt-4", "claude-3-sonnet"} THEN 15 ELSE 0)
      [] task_type = "creative" ->
            (IF "creative" \in m.strengths THEN 30 ELSE 0)
          + (IF m.name \in {"claude-3-opus", "gpt-4"} THEN 20 ELSE 0)
      [] task_type = "analysis" ->
            (IF "analysis" \in m.strengths THEN 30 ELSE 0)
          + (IF "reasoning" \in m.strengths THEN 20 ELSE 0)
      [] task_type = "vision" ->
            (IF "vision" \in m.strengths \/ "multimodal" \in m.strengths
             THEN 40 ELSE 0)
      [] task_type = "multilingual" ->
            (IF "multilingual" \in m.strengths THEN 30 ELSE 0)
          + (IF m.name \in {"gemini-pro", "gpt-4"} THEN 15 ELSE 0)
      [] OTHER -> 0

\* Lines 164-172: the complexity bonus.
ComplexityScore(m, complexity) ==
    CASE complexity = "simple" ->
            (IF "cost-effective" \in m.strengths THEN 15 ELSE 0)
          + (IF m.speed = "fast" THEN 10 ELSE 0)
      [] complexity = "complex" ->
            (IF m.name \in {"gpt-4", "claude-3-opus"} THEN 20 ELSE 0)
      [] OTHER -> 0

\* A plausible slip: the comparison turned round.
BudgetScoreReversed(cost, budget) ==
    IF cost >= budget THEN 10 ELSE -20

\* A plausible slip: over-budget backends pushed out of reach.
BudgetScoreHarsh(cost, budget) ==
    IF cost <= budget THEN 10 ELSE -200

\* Lines 174-178: the budget term.
BudgetScore(cost, budget) ==
    IF cost <= budget THEN 10 ELSE -20

\* Lines 131-180: the score of one entry.
Score(m, task_type, complexity, budget) ==
    TaskScore(m, task_type) + ComplexityScore(m, complexity)
  + BudgetScore(m.cost, budget)

\* Lines 128-180: scores, here in the iteration order of self.models.
Scores(reg, task_type, complexity, budget) ==
    [i \in DOMAIN reg |-> Score(reg[i], task_type, complexity, budget)]

\* Line 183: max(scores.items(), key=...) returns the first item, in iteration
\* order, among those with the greatest score.
FirstMax(s) ==
    CHOOSE i \in DOMAIN s :
        /\ \A j \in DOMAIN s : s[j] <= s[i]
        /\ \A j \in DOMAIN s : j < i => s[j] < s[i]

\* A plausible slip: the static catalogue scored instead of self.models.
SelectBestModelFromCatalog(reg, task_type, complexity, budget) ==
    IF reg = <<>> THEN NoneValue
    ELSE Catalog[FirstMax(Scores(Catalog, task_type, complexity, budget))].name

\* Lines 122-184: select_best_model.
SelectBestModel(reg, task_type, complexity, budget) ==
    IF reg = <<>> THEN NoneValue
    ELSE reg[FirstMax(Scores(reg, task_type, complexity, budget))].name

TaskTypes == {"coding", "creative", "analysis", "vision", "multilingual", "general"}
Complexities == {"simple", "medium", "complex"}
\* Budgets tried: nothing, 0.01, and the default 1.0.
Budgets == {0, 100, 10000}

NoCall == [called |-> FALSE]

\* What one select_best_model call is remembered by.
SelectRecord(reg, task_type, complexity, budget) ==
    [called |-> TRUE, task_type |-> task_type, complexity |-> complexity,
     budget |-> budget,
     scores |-> IF reg = <<>> THEN <<>> ELSE Scores(reg, task_type, complexity, budget),
     return |-> SelectBestModel(reg, task_type, complexity, budget)]

NoBackendCall == [made |-> FALSE]
NoResult == [op |-> "none"]

\* A caller invokes select_best_model(task_type), complexity and budget left at
\* their defaults (line 122), between the router's other operations.
SelectBestModelCall ==
    \E t \in TaskTypes, c \in {"medium"}, b \in {10000} :
        /\ sel' = SelectRecord(models, t, c, b)
        /\ backend_call' = NoBackendCall
        /\ UNCHANGED <<hostVars, env, models, prev, result, simpleVars, agentVars>>

\* A caller probes the scorer: select_best_model for one task type and
\* complexity under one budget after another, keeping the previous answer too.
RepeatSelect ==
    \E t \in TaskTypes, c \in Complexities, b \in Budgets :
        /\ sel.called => t = sel.task_type /\ c = sel.complexity
        /\ sel' = SelectRecord(models, t, c, b)
        /\ prev' = sel
        /\ backend_call' = NoBackendCall
        /\ UNCHANGED <<hostVars, env, models, result, simpleVars, agentVars>>

(***************************************************************************)
(* The execution adapter: generate_response, and the registry reads        *)
(***************************************************************************)
\* What the provider SDK does when called: it answers (ok) with a text and a
\* token count, or raises an Exception whose str() is msg. Python lets str(e) be
\* empty (an exception raised without arguments).
Tokens == {0, 1000}
ErrorMessages == {"", "Request timed out."}
BackendOutcomes ==
    {[kind |-> "ok", content |-> "reply", tokens |-> t, msg |-> ""] : t \in Tokens}
    \cup {[kind |-> "raise", content |-> "", tokens |-> 0, msg |-> m] : m \in ErrorMessages}

\* Lines 199, 210, 220: which branch of generate_response handles an entry.
Branch(m) ==
    IF m.client = "openai" \/ m.name \in {"copilot", "zencoder"} THEN "openai"
    ELSE IF m.client = "anthropic" THEN "anthropic"
    ELSE IF m.client = "google" THEN "google"
    ELSE "unsupported"

\* Lines 208, 218, 225: the token count each branch reads off the answer.
TokensUsed(m, outcome) ==
    IF Branch(m) = "google" THEN 0 ELSE outcome.tokens

\* A plausible slip: the routed call asking for the "simple" complexity.
ResolvedNameSimple(reg, model_name, task_type) ==
    IF model_name = NoneValue
    THEN SelectBestModel(reg, task_type, "simple", 10000)
    ELSE model_name

\* The registries initialize_models can build.
Registries == {InitializeModels(e) : e \in SUBSET Credentials}

\* select_best_model(task_type) with its default complexity and budget, over the
\* registries initialize_models can build, worked out once.
DefaultSelectionOf ==
    [reg \in Registries, task_type \in TaskTypes |->
        SelectBestModel(reg, task_type, "medium", 10000)]

\* Line 190: self.select_best_model(task_type), the defaults of line 122 filling
\* in complexity "medium" and budget 1.0.
DefaultSelection(reg, task_type) ==
    IF reg \in Registries
    THEN DefaultSelectionOf[reg, task_type]
    ELSE SelectBestModel(reg, task_type, "medium", 10000)

\* Lines 189-190: the name generate_response goes on with.
ResolvedName(reg, model_name, task_type) ==
    IF model_name = NoneValue
    THEN DefaultSelection(reg, task_type)
    ELSE model_name

\* A plausible slip: the per-1000-token price charged per call.
ResponseCostPerCall(tokens_used, cost) ==
    cost

\* Line 231: cost = tokens_used * model_info["cost"] / 1000. Registry costs are
\* in units of 1e-4 dollar, so the product is the cost in units of 1e-7 dollar.
ResponseCost(tokens_used, cost) ==
    tokens_used * cost

\* Lines 192-247: the dictionary generate_response returns for a resolved name
\* and the outcome of the backend call (unused when no call is made).
ResponseDict(reg, name, outcome) ==
    IF name = NoneValue \/ name \notin Keys(reg)
    THEN [error |-> "No suitable model available"]
    ELSE LET m == Lookup(reg, name)
         IN  IF Branch(m) = "unsupported"
             THEN [error |-> "Unsupported model type"]
             ELSE IF outcome.kind = "raise"
             THEN [error |-> outcome.msg, model_used |-> name, success |-> FALSE]
             ELSE [response |-> outcome.content, model_used |-> name,
                   execution_time |-> "elapsed",
                   tokens_used |-> TokensUsed(m, outcome),
                   cost |-> ResponseCost(TokensUsed(m, outcome), m.cost),
                   success |-> TRUE]

\* A plausible slip: the call attempted for any name the caller gives.
MakesBackendCallUnchecked(reg, name) ==
    name # NoneValue

\* Lines 192-228: whether generate_response reaches a provider call.
MakesBackendCall(reg, name) ==
    /\ name # NoneValue
    /\ name \in Keys(reg)
    /\ Branch(Lookup(reg, name)) # "unsupported"

\* A plausible slip: a backend whose call raised is dropped from the registry.
RegistryAfterGenerateEvicting(reg, name, outcome) ==
    IF MakesBackendCall(reg, name) /\ outcome.kind = "raise"
    THEN SelectSeq(reg, LAMBDA m : m.name # name)
    ELSE reg

\* Lines 186-247: self.models after generate_response, which only reads it.
RegistryAfterGenerate(reg, name, outcome) ==
    reg

\* The model names a caller passes: one backend of each provider block, and a
\* name no block registers.
ModelNameArgs ==
    {"gpt-4", "claude-3-haiku", "gemini-pro", "copilot", "zencoder", "unknown-model"}

\* One generate_response(prompt, model_name, task_type) call, start to return.
GenerateResponseCall(model_name, task_type, outcome) ==
    LET name == ResolvedName(models, model_name, task_type)
    IN  /\ result' = [op |-> "generate_response", model_name |-> model_name,
                      task_type |-> task_type,
                      value |-> ResponseDict(models, name, outcome)]
        /\ backend_call' =
               IF MakesBackendCall(models, name)
               THEN [made |-> TRUE, model |-> name, outcome |-> outcome]
               ELSE NoBackendCall
        /\ models' = RegistryAfterGenerate(models, name, outcome)

\* generate_response with the model left to the router (model_name=None).
GenerateResponseRouted ==
    \E t \in TaskTypes, o \in BackendOutcomes :
        /\ GenerateResponseCall(NoneValue, t, o)
        /\ UNCHANGED <<hostVars, env, sel, prev, simpleVars, agentVars>>

\* generate_response with the model named by the caller (task_type unused).
GenerateResponseNamed ==
    \E n \in ModelNameArgs, o \in BackendOutcomes :
        /\ GenerateResponseCall(n, "general", o)
        /\ UNCHANGED <<hostVars, env, sel, prev, simpleVars, agentVars>>

\* Lines 249-251: get_available_models.
GetAvailableModels ==
    /\ result' = [op |-> "get_available_models",
                  value |-> [i \in DOMAIN models |-> models[i].name]]
    /\ backend_call' = NoBackendCall
    /\ UNCHANGED <<hostVars, env, models, sel, prev, simpleVars, agentVars>>

\* Lines 253-255: get_model_info returns self.models.get(model_name, {}).
GetModelInfo ==
    \E n \in ModelNameArgs :
        /\ result' = [op |-> "get_model_info", model_name |-> n,
                      value |-> IF n \in Keys(models) THEN Lookup(models, n) ELSE <<>>]
        /\ backend_call' = NoBackendCall
        /\ UNCHANGED <<hostVars, env, models, sel, prev, simpleVars, agentVars>>

(***************************************************************************)
(* Text: TLA+ strings have no characters, so a text is spelled out          *)
(***************************************************************************)
\* The requests users type.
UserInputs ==
    {"hello there", "Debug my poem", "a story in French", "pros and cons", "Translate this", "already done",
     "spanish language", "evaluate spanish"}

\* The characters of each text and keyword of the model.
Chars(text) ==
    CASE text = "hello there" -> <<"h", "e", "l", "l", "o", " ", "t", "h", "e", "r", "e">>
      [] text = "Debug my poem" -> <<"D", "e", "b", "u", "g", " ", "m", "y", " ", "p", "o", "e", "m">>
      [] text = "a story in French" -> <<"a", " ", "s", "t", "o", "r", "y", " ", "i", "n", " ", "F", "r", "e", "n", "c", "h">>
      [] text = "pros and cons" -> <<"p", "r", "o", "s", " ", "a", "n", "d", " ", "c", "o", "n", "s">>
      [] text = "Translate this" -> <<"T", "r", "a", "n", "s", "l", "a", "t", "e", " ", "t", "h", "i", "s">>
      [] text = "already done" -> <<"a", "l", "r", "e", "a", "d", "y", " ", "d", "o", "n", "e">>
      [] text = "spanish language" -> <<"s", "p", "a", "n", "i", "s", "h", " ", "l", "a", "n", "g", "u", "a", "g", "e">>
      [] text = "evaluate spanish" -> <<"e", "v", "a", "l", "u", "a", "t", "e", " ", "s", "p", "a", "n", "i", "s", "h">>
      [] text = "search" -> <<"s", "e", "a", "r", "c", "h">>
      [] text = "find" -> <<"f", "i", "n", "d">>
      [] text = "look up" -> <<"l", "o", "o", "k", " ", "u", "p">>
      [] text = "google" -> <<"g", "o", "o", "g", "l", "e">>
      [] text = "create" -> <<"c", "r", "e", "a", "t", "e">>
      [] text = "write" -> <<"w", "r", "i", "t", "e">>
      [] text = "generate" -> <<"g", "e", "n", "e", "r", "a", "t", "e">>
      [] text = "make" -> <<"m", "a", "k", "e">>
      [] text = "run" -> <<"r", "u", "n">>
      [] text = "execute" -> <<"e", "x", "e", "c", "u", "t", "e">>
      [] text = "command" -> <<"c", "o", "m", "m", "a", "n", "d">>
      [] text = "calculate" -> <<"c", "a", "l", "c", "u", "l", "a", "t", "e">>
      [] text = "compute" -> <<"c", "o", "m", "p", "u", "t", "e">>
      [] text = "solve" -> <<"s", "o", "l", "v", "e">>
      [] text = "translate" -> <<"t", "r", "a", "n", "s", "l", "a", "t", "e">>
      [] text = "convert" -> <<"c", "o", "n", "v", "e", "r", "t">>
      [] text = "file" -> <<"f", "i", "l", "e">>
      [] text = "save" -> <<"s", "a", "v", "e">>
      [] text = "read" -> <<"r", "e", "a", "d">>
      [] text = "open" -> <<"o", "p", "e", "n">>
      [] text = "analyze" -> <<"a", "n", "a", "l", "y", "z", "e">>
      [] text = "check" -> <<"c", "h", "e", "c", "k">>
      [] text = "review" -> <<"r", "e", "v", "i", "e", "w">>
      [] text = "code" -> <<"c", "o", "d", "e">>
      [] text = "program" -> <<"p", "r", "o", "g", "r", "a", "m">>
      [] text = "function" -> <<"f", "u", "n", "c", "t", "i", "o", "n">>
      [] text = "script" -> <<"s", "c", "r", "i", "p", "t">>
      [] text = "debug" -> <<"d", "e", "b", "u", "g">>
      [] text = "story" -> <<"s", "t", "o", "r", "y">>
      [] text = "creative" -> <<"c", "r", "e", "a", "t", "i", "v", "e">>
      [] text = "poem" -> <<"p", "o", "e", "m">>
      [] text = "imagine" -> <<"i", "m", "a", "g", "i", "n", "e">>
      [] text = "compare" -> <<"c", "o", "m", "p", "a", "r", "e">>
      [] text = "evaluate" -> <<"e", "v", "a", "l", "u", "a", "t", "e">>
      [] text = "pros" -> <<"p", "r", "o", "s">>
      [] text = "cons" -> <<"c", "o", "n", "s">>
      [] text = "language" -> <<"l", "a", "n", "g", "u", "a", "g", "e">>
      [] text = "spanish" -> <<"s", "p", "a", "n", "i", "s", "h">>
      [] text = "french" -> <<"f", "r", "e", "n", "c", "h">>
      [] text = "image" -> <<"i", "m", "a", "g", "e">>
      [] text = "picture" -> <<"p", "i", "c", "t", "u", "r", "e">>
      [] text = "summarize" -> <<"s", "u", "m", "m", "a", "r", "i", "z", "e">>
      [] text = "reply" -> <<"r", "e", "p", "l", "y">>
      [] text = "Error: rate limit" -> <<"E", "r", "r", "o", "r", ":", " ", "r", "a", "t", "e", " ", "l", "i", "m", "i", "t">>
      [] text = "Error executing task: " -> <<"E", "r", "r", "o", "r", " ", "e", "x", "e", "c", "u", "t", "i", "n", "g", " ", "t", "a", "s", "k", ":", " ">>
      [] text = "Error executing task: Request timed out." -> <<"E", "r", "r", "o", "r", " ", "e", "x", "e", "c", "u", "t", "i", "n", "g", " ", "t", "a", "s", "k", ":", " ", "R", "e", "q", "u", "e", "s", "t", " ", "t", "i", "m", "e", "d", " ", "o", "u", "t", ".">>
      [] text = "Error" -> <<"E", "r", "r", "o", "r">>
      [] text = "" -> <<>>

\* str.lower() on the characters that occur.
LowerChar(c) ==
    CASE c = "D" -> "d"
      [] c = "E" -> "e"
      [] c = "F" -> "f"
      [] c = "R" -> "r"
      [] c = "T" -> "t"
      [] OTHER -> c

Lower(chars) == [i \in DOMAIN chars |-> LowerChar(chars[i])]

\* Python's `keyword in text` on strings: keyword occurs as a substring.
Contains(chars, keyword) ==
    \E i \in 1..(Len(chars) - Len(keyword) + 1) :
        SubSeq(chars, i, i + Len(keyword) - 1) = keyword

\* any(word in text for word in words)
ContainsAny(chars, words) ==
    \E w \in words : Contains(chars, Chars(w))

(***************************************************************************)
(* SimpleAIAgent                                                           *)
(***************************************************************************)
\* Lines 24-32: action_keywords.
ActionKeywords ==
    {"search", "find", "look up", "google", "create", "write", "generate", "make", "run", "execute", "command",
     "calculate", "compute", "solve", "translate", "convert", "file", "save", "read", "open", "analyze", "check", "review"}

\* A plausible slip: the list cut down to its first line of keywords.
NeedsActionSearchOnly(user_input) ==
    ContainsAny(Lower(Chars(user_input)), {"search", "find", "look up", "google"})

\* Line 34: needs_action.
NeedsAction(user_input) ==
    ContainsAny(Lower(Chars(user_input)), ActionKeywords)

\* A plausible slip: the creative branch tested before the coding branch.
DetermineTaskTypeCreativeFirst(user_input) ==
    LET input_lower == Lower(Chars(user_input))
    IN  IF ContainsAny(input_lower, {"story", "creative", "poem", "imagine"})
        THEN "creative"
        ELSE IF ContainsAny(input_lower, {"code", "program", "function", "script", "debug"})
        THEN "coding"
        ELSE IF ContainsAny(input_lower, {"analyze", "compare", "evaluate", "pros", "cons"})
        THEN "analysis"
        ELSE IF ContainsAny(input_lower, {"translate", "language", "spanish", "french"})
        THEN "multilingual"
        ELSE "general"

\* Lines 53-66: determine_task_type.
DetermineTaskType(user_input) ==
    LET input_lower == Lower(Chars(user_input))
    IN  IF ContainsAny(input_lower, {"code", "program", "function", "script", "debug"})
        THEN "coding"
        ELSE IF ContainsAny(input_lower, {"story", "creative", "poem", "imagine"})
        THEN "creative"
        ELSE IF ContainsAny(input_lower, {"analyze", "compare", "evaluate", "pros", "cons"})
        THEN "analysis"
        ELSE IF ContainsAny(input_lower, {"translate", "language", "spanish", "french"})
        THEN "multilingual"
        ELSE "general"

\* needs_action and determine_task_type of every request, worked out once.
NeedsActionOf == [u \in UserInputs |-> NeedsAction(u)]
TaskTypeOf == [u \in UserInputs |-> DetermineTaskType(u)]

\* Line 73: output_text[:200] + "..." if len(output_text) > 200 else output_text.
Truncate(output_text) ==
    IF Len(output_text) > 200
    THEN SubSeq(output_text, 1, 200) \o "..."
    ELSE output_text

\* Lines 70-76: the entry log_interaction builds. The timestamp is the wall
\* clock at the call and is kept as the token "now".
SimpleLogEntry(input_text, output_text, interaction_type, model_used) ==
    [timestamp |-> "now", input |-> input_text, output |-> Truncate(output_text),
     type |-> interaction_type, model |-> model_used]

RECURSIVE Repeat(_, _)
\* Python's text * n.
Repeat(text, n) ==
    IF n = 0 THEN "" ELSE text \o Repeat(text, n - 1)

\* A text of 201 characters, as an action that reads a file or lists search
\* results returns.
LongReport == Repeat("0123456789", 20) \o "!"

\* What ActionAgent.process_request does: it returns a text (its handlers turn
\* their own failures into a text), or raises.
ActionOutcomes ==
    {[kind |-> "ok", text |-> "done"], [kind |-> "ok", text |-> "action failed"],
     [kind |-> "ok", text |-> LongReport], [kind |-> "raise", text |-> ""]}

\* Lines 80-85 of log_interaction: whether it raises. The open and the write
\* are inside try, and the bare except passes.
SimpleLogInteractionRaises(write_ok) ==
    FALSE

\* What the write of the line to agent_logs.json came to, for the result record.
LogWrite(write_ok) ==
    IF write_ok THEN "ok" ELSE "failed"

\* Lines 36-40: process on the action path. The write of the log line succeeds
\* or fails (write_ok).
ProcessAction ==
    \E u \in UserInputs, a \in ActionOutcomes, write_ok \in BOOLEAN :
        /\ Len(conversation_history) < MaxHistory
        /\ NeedsActionOf[u]
        /\ IF a.kind = "raise"
           THEN /\ result' = [op |-> "process", user_input |-> u, path |-> "action",
                              entries_before |-> Len(conversation_history),
                              raised |-> TRUE, value |-> NoneValue,
                              log_write |-> "none", task_type |-> NoneValue,
                              calls |-> {"action_agent.process_request"}]
                /\ UNCHANGED conversation_history
           ELSE /\ result' = [op |-> "process", user_input |-> u, path |-> "action",
                              entries_before |-> Len(conversation_history),
                              raised |-> SimpleLogInteractionRaises(write_ok),
                              value |-> a.text, log_write |-> LogWrite(write_ok),
                              task_type |-> NoneValue,
                              calls |-> {"action_agent.process_request"}]
                /\ conversation_history' =
                       Append(conversation_history,
                              SimpleLogEntry(u, a.text, "action", "action_agent"))
        /\ backend_call' = NoBackendCall
        /\ UNCHANGED <<hostVars, env, models, sel, prev, agentVars>>

\* Lines 41-51: process on the conversation path; the text returned is kept as
\* its parts (the prefix, the model or nothing, the response or the error).
ProcessConversation ==
    \E u \in UserInputs :
        /\ Len(conversation_history) < MaxHistory
        /\ ~NeedsActionOf[u]
        /\ LET name == ResolvedName(models, NoneValue, TaskTypeOf[u])
           IN  \E o \in BackendOutcomes, write_ok \in BOOLEAN :
                   LET response == ResponseDict(models, name, o)
                       success == "success" \in DOMAIN response /\ response.success
                   IN  /\ result' =
                              [op |-> "process", user_input |-> u,
                               path |-> "conversation",
                               entries_before |-> Len(conversation_history),
                               raised |-> success /\ SimpleLogInteractionRaises(write_ok),
                               value |-> IF success
                                         THEN <<"reply", response.model_used,
                                                response.response>>
                                         ELSE <<"Error", response.error>>,
                               log_write |-> IF success THEN LogWrite(write_ok)
                                             ELSE "none",
                               task_type |-> TaskTypeOf[u],
                               calls |-> {"determine_task_type",
                                          "router.generate_response"}]
                       /\ conversation_history' =
                              IF success
                              THEN Append(conversation_history,
                                          SimpleLogEntry(u, response.response,
                                                         "conversation",
                                                         response.model_used))
                              ELSE conversation_history
                       /\ backend_call' =
                              IF MakesBackendCall(models, name)
                              THEN [made |-> TRUE, model |-> name, outcome |-> o]
                              ELSE NoBackendCall
                       /\ models' = RegistryAfterGenerate(models, name, o)
        /\ UNCHANGED <<hostVars, env, sel, prev, agentVars>>

\* A caller invokes determine_task_type(user_input).
DetermineTaskTypeCall ==
    \E u \in UserInputs :
        /\ result' = [op |-> "determine_task_type", user_input |-> u,
                      value |-> TaskTypeOf[u]]
        /\ backend_call' = NoBackendCall
        /\ UNCHANGED <<hostVars, env, models, sel, prev, simpleVars, agentVars>>

(***************************************************************************)
(* MultimodalAIAgent: clients, local models and intelligent_model_routing  *)
(***************************************************************************)
AgentCredentials ==
    {"OPENAI_API_KEY", "ANTHROPIC_API_KEY", "GOOGLE_API_KEY", "HUGGINGFACE_API_KEY"}

\* initialize_api_clients: each client attribute is assigned iff its key is set;
\* the attributes start as None (__init__, lines 103-106).
InitializeApiClients(e) ==
    (IF "OPENAI_API_KEY" \in e THEN {"openai_client"} ELSE {})
    \cup (IF "ANTHROPIC_API_KEY" \in e THEN {"anthropic_client"} ELSE {})
    \cup (IF "GOOGLE_API_KEY" \in e THEN {"gemini_client"} ELSE {})
    \cup (IF "HUGGINGFACE_API_KEY" \in e THEN {"hf_client"} ELSE {})

\* The order in which initialize_multimodal_processors loads its models; the
\* first load that raises ends the method and leaves the later ones unloaded.
ProcessorModels == <<"whisper", "blip", "translator">>

\* initialize_local_models and initialize_multimodal_processors: self.models
\* holds "text" iff the Mistral load succeeded, and the first `loaded` of the
\* processor models.
InitializeLocalModels(text_ok, loaded) ==
    (IF text_ok THEN {"text"} ELSE {})
    \cup {ProcessorModels[i] : i \in 1..loaded}

\* The TaskType members analyze_input can set.
RoutedTaskTypes ==
    {"text_generation", "image_analysis", "translation", "summarization",
     "code_generation"}

Languages == {"en", "fr"}

\* Scores are Python floats; they are kept here as integers in units of 1e-4,
\* with one unit added where the binary sum lies above the decimal one
\* (0.9 + 0.05 = 0.9500000000000001 is 9501), so that comparisons agree.
FloatAdd(a, b) ==
    CASE <<a, b>> = <<9000, 500>> -> 9501
      [] <<a, b>> = <<8000, 500>> -> 8501
      [] <<a, b>> = <<500, 1000>> -> 1501
      [] <<a, b>> = <<9501, 1000>> -> 10500
      [] OTHER -> a + b

\* A dict as the sequence of its items in insertion order.
DictGet(d, k, default) ==
    IF \E i \in DOMAIN d : d[i].name = k
    THEN d[CHOOSE i \in DOMAIN d : d[i].name = k].score
    ELSE default

DictSet(d, k, v) ==
    IF \E i \in DOMAIN d : d[i].name = k
    THEN [i \in DOMAIN d |-> IF d[i].name = k THEN [name |-> k, score |-> v] ELSE d[i]]
    ELSE Append(d, [name |-> k, score |-> v])

Item(k, v) == [name |-> k, score |-> v]

\* Lines 358-386: the table of scores for a task type.
BaseRoutingScores(task_type) ==
    CASE task_type = "code_generation" ->
            << Item("gpt-4", 9000), Item("claude-3-opus", 8500),
               Item("mistral-7b-instruct", 7000), Item("codellama", 9500) >>
      [] task_type = "translation" ->
            << Item("gpt-4", 8000), Item("gemini-pro", 8500), Item("opus-mt", 9000) >>
      [] task_type = "image_analysis" ->
            << Item("gpt-4-vision", 9500), Item("gemini-pro-vision", 9000),
               Item("blip", 7000) >>
      [] OTHER ->
            << Item("gpt-4", 9000), Item("claude-3-opus", 8500),
               Item("gemini-pro", 8000), Item("mistral-7b-instruct", 7500) >>

\* Lines 388-391: the language adjustment.
LanguageAdjusted(d, language) ==
    IF language # "en"
    THEN LET d1 == DictSet(d, "gemini-pro", FloatAdd(DictGet(d, "gemini-pro", 0), 1000))
         IN  DictSet(d1, "gpt-4", FloatAdd(DictGet(d1, "gpt-4", 0), 500))
    ELSE d

\* Lines 393-397: the complexity adjustment; words is len(content.split()), and
\* words / 100 > 1 exactly when words > 100.
ComplexityAdjusted(d, words) ==
    IF words > 100
    THEN LET d1 == DictSet(d, "gpt-4", FloatAdd(DictGet(d, "gpt-4", 0), 1000))
         IN  DictSet(d1, "claude-3-opus",
                     FloatAdd(DictGet(d1, "claude-3-opus", 0), 1000))
    ELSE d

\* Lines 403-413 and 417: provider_map.get(model, ModelProvider.LOCAL).
ProviderOf(model) ==
    CASE model \in {"gpt-4", "gpt-4-vision"} -> "openai"
      [] model = "claude-3-opus" -> "anthropic"
      [] model \in {"gemini-pro", "gemini-pro-vision"} -> "google"
      [] model = "codellama" -> "huggingface"
      [] OTHER -> "local"

\* Lines 355-420: intelligent_model_routing; no line of it reads a client
\* attribute or self.models.
IntelligentModelRouting(task_type, language, words) ==
    LET d == ComplexityAdjusted(LanguageAdjusted(BaseRoutingScores(task_type), language),
                                words)
        best == d[FirstMax([i \in DOMAIN d |-> d[i].score])]
    IN  [model |-> best.name, provider |-> ProviderOf(best.name),
         confidence |-> best.score]

\* Word counts of the content: short, at the threshold, above it.
WordCounts == {3, 100, 101}

\* A caller invokes intelligent_model_routing(task_type, language, content).
IntelligentModelRoutingCall ==
    \E t \in RoutedTaskTypes, l \in Languages, w \in WordCounts :
        /\ routing' = [called |-> TRUE, task_type |-> t, language |-> l, words |-> w,
                       return |-> IntelligentModelRouting(t, l, w)]
        /\ UNCHANGED <<hostVars, routerVars, simpleVars, agent_env, api_clients, local_models, ledgerVars>>

(***************************************************************************)
(* MultimodalAIAgent: the workflow and the ledger                          *)
(***************************************************************************)
\* The number of process_text_input coroutines of a run.
MaxRequests == 2

RequestIds == 1..MaxRequests

NewRequest == [pc |-> "new"]

\* The texts given to process_text_input.
AgentInputs == {"hello there", "Translate this"}

\* str.startswith
StartsWith(chars, prefix) ==
    /\ Len(chars) >= Len(prefix)
    /\ SubSeq(chars, 1, Len(prefix)) = prefix

\* len(content.split()): the runs of characters between spaces.
WordCount(chars) ==
    Cardinality({i \in DOMAIN chars :
                    chars[i] # " " /\ (i = 1 \/ chars[i - 1] = " ")})

\* Lines 279-302: analyze_input's task type for the last message.
AnalyzeInput(text) ==
    LET last_message == Lower(Chars(text))
    IN  IF ContainsAny(last_message, {"image", "picture"}) THEN "image_analysis"
        ELSE IF ContainsAny(last_message, {"translate"}) THEN "translation"
        ELSE IF ContainsAny(last_message, {"summarize"}) THEN "summarization"
        ELSE IF ContainsAny(last_message, {"code", "program"}) THEN "code_generation"
        ELSE "text_generation"

\* The analysis of every text, worked out once.
AnalysisOf ==
    [t \in AgentInputs |-> [task_type |-> AnalyzeInput(t), words |-> WordCount(Chars(t))]]

\* execute_with_model is called at line 317 and defined nowhere in the
\* repository. It is taken from the design: it returns the dict whose keys
\* execute_task reads, or raises. Confidence is in units of 1e-4, cost in units
\* of 1e-7 dollar, execution_time in seconds.
ExecuteWithModelOutcomes ==
    {[kind |-> "ok", response |-> "reply", confidence |-> 9000, execution_time |-> 2,
      tokens_used |-> 1000, cost |-> 300000],
     [kind |-> "ok", response |-> "", confidence |-> 0, execution_time |-> 1,
      tokens_used |-> 0, cost |-> 0],
     [kind |-> "ok", response |-> "Error: rate limit", confidence |-> 0,
      execution_time |-> 1, tokens_used |-> 0, cost |-> 0]}
    \cup {[kind |-> "raise", msg |-> m] : m \in ErrorMessages}

\* f"Error executing task: {str(e)}"
FormatExecutionError(msg) ==
    CASE msg = "" -> "Error executing task: "
      [] msg = "Request timed out." -> "Error executing task: Request timed out."

\* Lines 314-334: execute_task. The fields of AgentState it leaves alone keep
\* their defaults (lines 63-67).
ExecuteTask(x) ==
    IF x.kind = "ok"
    THEN [final_response |-> x.response, confidence_score |-> x.confidence,
          execution_time |-> x.execution_time, tokens_used |-> x.tokens_used,
          cost |-> x.cost]
    ELSE [final_response |-> FormatExecutionError(x.msg), confidence_score |-> 0,
          execution_time |-> 0, tokens_used |-> 0, cost |-> 0]

\* A plausible slip: any non-empty response counted as a success.
LogSuccessNonEmpty(final_response) ==
    final_response # ""

\* Line 465: bool(final_response and not final_response.startswith("Error")).
LogSuccess(final_response) ==
    /\ final_response # ""
    /\ ~StartsWith(Chars(final_response), Chars("Error"))

\* Lines 453-466: the LogEntry log_interaction builds; error keeps its default.
AgentLogEntry(text, task_type, decision, st) ==
    [timestamp |-> "now", session_id |-> "default", task_type |-> task_type,
     input_data |-> [text |-> text, type |-> "text"],
     routing_decision |-> decision, model_used |-> decision.model,
     output |-> st.final_response, confidence |-> st.confidence_score,
     execution_time |-> st.execution_time, tokens_used |-> st.tokens_used,
     cost |-> st.cost, success |-> LogSuccess(st.final_response),
     error |-> NoneValue]

\* Lines 441-446: the item appended to conversation_memory.
MemoryItem(text, decision, st) ==
    [user |-> text, assistant |-> st.final_response, timestamp |-> "now",
     model_used |-> decision.model]

\* The workflow of lines 279-334 on a text, for the language detect() gives and
\* the outcome of execute_with_model: the state ainvoke returns, with the
\* LogEntry and the memory item lines 435-446 build from it.
Workflow(text, language, x) ==
    LET a == AnalysisOf[text]
        decision == IntelligentModelRouting(a.task_type, language, a.words)
        st == ExecuteTask(x)
    IN  [final_response |-> st.final_response,
         log_entry |-> AgentLogEntry(text, a.task_type, decision, st),
         memory_item |-> MemoryItem(text, decision, st)]

\* Every workflow run of the model, worked out once.
WorkflowOf ==
    [text \in AgentInputs, language \in Languages, x \in ExecuteWithModelOutcomes |->
        Workflow(text, language, x)]

\* A plausible slip: the list rebuilt from the new entry.
LogInteractionKeepLatest(logs, log_entry) ==
    <<log_entry>>

\* A plausible slip: an append that keeps at most one entry.
LogInteractionLossy(logs, log_entry) ==
    IF logs = <<>> THEN <<log_entry>> ELSE logs

\* Line 468: self.session_logs.append(log_entry).
LogInteraction(logs, log_entry) ==
    Append(logs, log_entry)

\* A plausible slip: the write outside the try block.
LogInteractionRaisesUncaught(write_ok) ==
    ~write_ok

\* Lines 470-475: whether log_interaction raises. The open and the write are
\* inside try, and `except Exception` reports a failure to self.logger.
LogInteractionRaises(write_ok) ==
    FALSE

\* Lines 422-433: process_text_input up to its await; the coroutine is
\* suspended in workflow.ainvoke. Requests are numbered in the order of their
\* calls.
StartRequest ==
    \E i \in RequestIds, text \in AgentInputs :
        /\ requests[i].pc = "new"
        /\ \A j \in RequestIds : j < i => requests[j].pc # "new"
        /\ requests' = [requests EXCEPT ![i] = [pc |-> "awaiting", text |-> text]]
        /\ UNCHANGED <<hostVars, routerVars, simpleVars, agent_env, api_clients, local_models,
                       routing, session_logs, conversation_memory>>

\* The workflow (analyze, route, execute) finishes and the coroutine resumes:
\* lines 435-449 run without another await, so no other coroutine runs between
\* them; until then the workflow's state is local to this coroutine. detect()
\* gives a language, and "en" is also what line 290 sets when it raises. The
\* write of the JSON line succeeds or fails (write_ok). A returned request keeps
\* the entry it logged and the place it was logged at.
CompleteRequest ==
    \E i \in RequestIds, language \in Languages, x \in ExecuteWithModelOutcomes,
       write_ok \in BOOLEAN :
        /\ requests[i].pc = "awaiting"
        /\ LET text == requests[i].text
               w == WorkflowOf[text, language, x]
               log_entry == w.log_entry
           IN  /\ session_logs' = LogInteraction(session_logs, log_entry)
               /\ IF LogInteractionRaises(write_ok)
                  THEN /\ UNCHANGED conversation_memory
                       /\ requests' = [requests EXCEPT ![i] =
                                          [pc |-> "raised", text |-> text]]
                  ELSE /\ conversation_memory' =
                              Append(conversation_memory, w.memory_item)
                       /\ requests' = [requests EXCEPT ![i] =
                                          [pc |-> "returned", text |-> text,
                                           execution |-> x.kind,
                                           value |-> w.final_response,
                                           logged |-> log_entry,
                                           index |-> Len(session_logs) + 1]]
               /\ result' = [op |-> "process_text_input", request |-> i,
                             write_ok |-> write_ok,
                             entries_before |-> Len(session_logs),
                             final_response |-> w.final_response]
        /\ UNCHANGED <<hostVars, env, models, sel, prev, backend_call, simpleVars, agent_env,
                       api_clients, local_models, routing>>

\* A plausible slip: the result of a cancelled request logged all the same.
CancelRequestStillLogged ==
    \E i \in RequestIds :
        /\ requests[i].pc = "awaiting"
        /\ requests' = [requests EXCEPT ![i] =
                           [pc |-> "cancelled", text |-> requests[i].text]]
        /\ session_logs' =
               LogInteraction(session_logs,
                              AgentLogEntry(requests[i].text, "text_generation",
                                            IntelligentModelRouting("text_generation",
                                                                    "en", 0),
                                            ExecuteTask([kind |-> "raise", msg |-> ""])))
        /\ UNCHANGED <<hostVars, routerVars, simpleVars, agent_env, api_clients, local_models,
                       routing, conversation_memory>>

\* The task of a suspended coroutine is cancelled: CancelledError is raised at
\* the await of line 433 and lines 435-449 do not run.
CancelRequest ==
    \E i \in RequestIds :
        /\ requests[i].pc = "awaiting"
        /\ requests' = [requests EXCEPT ![i] =
                           [pc |-> "cancelled", text |-> requests[i].text]]
        /\ UNCHANGED <<hostVars, routerVars, simpleVars, agent_env, api_clients, local_models,
                       routing, session_logs, conversation_memory>>

RECURSIVE SumOf(_, _)
\* sum(f(log) for log in logs)
SumOf(logs, field) ==
    IF logs = <<>> THEN 0
    ELSE logs[1][field] + SumOf(Tail(logs), field)

\* Lines 477-498: get_session_stats. The two quotients are kept as their
\* numerator and denominator.
SessionStats(logs, memory) ==
    IF logs = <<>>
    THEN [message |-> "No interactions yet"]
    ELSE [total_interactions |-> Len(logs),
          success_rate |-> <<Cardinality({i \in DOMAIN logs : logs[i].success}), Len(logs)>>,
          total_cost |-> SumOf(logs, "cost"),
          average_confidence |-> <<SumOf(logs, "confidence"), Len(logs)>>,
          model_usage |-> [m \in {logs[i].model_used : i \in DOMAIN logs} |->
                              Cardinality({i \in DOMAIN logs : logs[i].model_used = m})],
          conversation_length |-> Len(memory)]

GetSessionStats ==
    /\ result' = [op |-> "get_session_stats", entries |-> Len(session_logs),
                  value |-> SessionStats(session_logs, conversation_memory)]
    /\ UNCHANGED <<hostVars, env, models, sel, prev, backend_call, simpleVars, agentVars>>


(***************************************************************************)
(* generate_response coroutines sharing one event loop                     *)
(***************************************************************************)
\* The number of generate_response coroutines put on the loop.
MaxCalls == 2

CallIds == 1..MaxCalls

NewCall == [pc |-> "new"]

\* The task types of the calls put on the loop: "general" is what
\* WorkingAgent.process passes (working_agent.py line 34).
LoopTaskTypes == {"general", "coding"}

\* The thread that runs the event loop is inside a provider call. The calls of
\* lines 201, 212 and 222 are made on the synchronous clients of lines 24, 50
\* and 74 (openai.OpenAI, anthropic.Anthropic, genai) and are not awaited:
\* generate_response holds no await, so the loop runs nothing else until the
\* provider call comes back.
LoopThreadInBackend ==
    \E i \in CallIds : calls[i].pc = "in_backend"

\* asyncio.create_task / gather on a coroutine that ends in
\* router.generate_response(user_input, task_type=...), as WorkingAgent.process
\* does at line 34 for an input that is no command. Ids are given in call order.
Submit(i, task_type) ==
    /\ calls[i].pc = "new"
    /\ \A k \in CallIds : k < i => calls[k].pc # "new"
    /\ calls' = [calls EXCEPT ![i] = [pc |-> "scheduled", task_type |-> task_type]]
    /\ UNCHANGED <<routerVars, simpleVars, agentVars, user_sessions>>

\* Lines 186-225: the loop steps coroutine i, which runs from its first line
\* either to one of the early returns (lines 193, 228) or into the provider call,
\* where it stays with the thread. Whether the provider will ever answer is the
\* provider's: no call of lines 201-223 is given a timeout.
RunCall(i) ==
    /\ calls[i].pc = "scheduled"
    /\ ~LoopThreadInBackend
    /\ LET task_type == calls[i].task_type
           name == ResolvedName(models, NoneValue, task_type)
       IN  IF MakesBackendCall(models, name)
           THEN \E answers \in BOOLEAN :
                    calls' = [calls EXCEPT ![i] =
                                 [pc |-> "in_backend", task_type |-> task_type,
                                  model |-> name, answers |-> answers]]
           ELSE calls' = [calls EXCEPT ![i] =
                             [pc |-> "returned", task_type |-> task_type,
                              value |-> ResponseDict(models, name,
                                                     CHOOSE o \in BackendOutcomes : TRUE)]]
    /\ UNCHANGED <<routerVars, simpleVars, agentVars, user_sessions>>

\* Lines 206-247: the provider call comes back, with an answer or by raising,
\* and generate_response returns its dictionary.
BackendReturns(i, outcome) ==
    /\ calls[i].pc = "in_backend"
    /\ calls[i].answers
    /\ calls' = [calls EXCEPT ![i] =
                    [pc |-> "returned", task_type |-> calls[i].task_type,
                     value |-> ResponseDict(models, calls[i].model, outcome)]]
    /\ UNCHANGED <<routerVars, simpleVars, agentVars, user_sessions>>

\* Coroutine i gets from the provider call to its return statement.
ReturnFromBackend(i) ==
    \E outcome \in BackendOutcomes : BackendReturns(i, outcome)

SubmitCall ==
    \E i \in CallIds, task_type \in LoopTaskTypes : Submit(i, task_type)

RunScheduledCall ==
    \E i \in CallIds : RunCall(i)

BackendReturnsCall ==
    \E i \in CallIds : ReturnFromBackend(i)


(***************************************************************************)
(* TelegramBot (src/integrations/telegram_bot.py)                          *)
(***************************************************************************)
\* The entries a user's conversation_history is let grow to.
MaxConversation == 2

\* update.effective_user.id of the users who write to the bot.
TelegramUsers == {"user-1", "user-2"}

\* update.message.text.
TelegramTexts == {"hello there", LongReport}

\* What awaiting self.agent_callback comes to: a text (process_agent_request of
\* main.py, lines 113-151, returns a str on every path) or an exception.
CallbackOutcomes ==
    {[kind |-> "ok", response |-> r] : r \in {"reply", LongReport}}
    \cup {[kind |-> "raise", response |-> ""]}

\* Line 19: self.user_sessions = {}.
NoSessions == [u \in {} |-> NoneValue]

\* Lines 50-55: the dictionary start_command stores for a user.
FreshSession(user_id) ==
    [username |-> user_id,
     conversation_history |-> <<>>,
     preferences |-> [language |-> "en", voice_enabled |-> TRUE],
     created_at |-> "now"]

\* dict[key] = value on self.user_sessions.
StoreSession(sessions, user_id, session) ==
    [u \in DOMAIN sessions \cup {user_id} |->
        IF u = user_id THEN session ELSE sessions[u]]

\* The [:100] slices of lines 105-106.
FirstHundred(text) ==
    IF Len(text) > 100 THEN SubSeq(text, 1, 100) ELSE text

\* Lines 104-109: the entry process_with_agent appends.
HistoryEntry(input_data, response) ==
    [input |-> FirstHundred(input_data),
     response |-> FirstHundred(response),
     type |-> "text",
     timestamp |-> "now"]

\* A plausible slip: the exchange recorded in the except branch as well.
HistoryAfterAgentAlways(history, input_data, outcome) ==
    Append(history,
           HistoryEntry(input_data,
                        IF outcome.kind = "ok" THEN outcome.response
                        ELSE "I encountered an error processing your request."))

\* Lines 98-114: conversation_history after process_with_agent. The append of
\* line 104 is reached only when the await of line 100 returned; an exception
\* goes to the except of line 112, which appends nothing.
HistoryAfterAgent(history, input_data, outcome) ==
    IF outcome.kind = "ok"
    THEN Append(history, HistoryEntry(input_data, outcome.response))
    ELSE history

\* Lines 98-114: what process_with_agent returns.
AgentReply(outcome) ==
    IF outcome.kind = "ok"
    THEN outcome.response
    ELSE "I encountered an error processing your request."

\* Lines 44-76: /start. The session is (re)placed before the welcome message is
\* sent, so a reply_text that raises leaves the same sessions behind.
StartCommand(user_id) ==
    /\ user_sessions' = StoreSession(user_sessions, user_id, FreshSession(user_id))
    /\ result' = [op |-> "start_command", user_id |-> user_id]
    /\ UNCHANGED <<env, models, sel, prev, backend_call, simpleVars, agentVars, calls>>

\* Lines 78-94: one text update handled from start to end. The Application of
\* line 18 is built without concurrent_updates, so it hands the next update to a
\* handler only after the previous handler has finished. typing_ok is whether
\* send_chat_action (line 87, outside the try) returns.
HandleMessage(user_id, message_text, typing_ok, outcome) ==
    IF user_id \notin DOMAIN user_sessions
    THEN /\ user_sessions' =
                StoreSession(user_sessions, user_id, FreshSession(user_id))
         /\ result' = [op |-> "handle_message", user_id |-> user_id,
                       message_text |-> message_text, forwarded |-> FALSE,
                       callback |-> "none", entries_before |-> 0,
                       reply |-> "welcome"]
         /\ UNCHANGED <<env, models, sel, prev, backend_call, simpleVars,
                        agentVars, calls>>
    ELSE LET session == user_sessions[user_id]
             history == session.conversation_history
         IN  /\ Len(history) < MaxConversation
             /\ IF ~typing_ok
                THEN /\ user_sessions' = user_sessions
                     /\ result' = [op |-> "handle_message", user_id |-> user_id,
                                   message_text |-> message_text,
                                   forwarded |-> FALSE, callback |-> "none",
                                   entries_before |-> Len(history),
                                   reply |-> "raised"]
                ELSE /\ user_sessions' =
                            StoreSession(user_sessions, user_id,
                                [session EXCEPT !.conversation_history =
                                    HistoryAfterAgent(history, message_text, outcome)])
                     /\ result' = [op |-> "handle_message", user_id |-> user_id,
                                   message_text |-> message_text,
                                   forwarded |-> TRUE, callback |-> outcome.kind,
                                   entries_before |-> Len(history),
                                   reply |-> AgentReply(outcome)]
             /\ UNCHANGED <<env, models, sel, prev, backend_call, simpleVars,
                            agentVars, calls>>

StartCommandUpdate ==
    \E user_id \in TelegramUsers : StartCommand(user_id)

TextMessageUpdate ==
    \E user_id \in TelegramUsers, message_text \in TelegramTexts,
       typing_ok \in BOOLEAN, outcome \in CallbackOutcomes :
        HandleMessage(user_id, message_text, typing_ok, outcome)


(***************************************************************************)
(* Specifications                                                          *)
(***************************************************************************)
\* EnhancedMultiModelRouter.__init__ under every combination of credentials.
InitRouter ==
    /\ env \in SUBSET Credentials
    /\ models = InitializeModels(env)
    /\ sel = NoCall
    /\ prev = NoCall
    /\ result = NoResult
    /\ backend_call = NoBackendCall

\* The event loop with nothing submitted and the bot with no session, for the
\* specifications that do not drive them.
InitIdleHosts ==
    /\ calls = [i \in CallIds |-> NewCall]
    /\ user_sessions = NoSessions

\* The agents, built and idle, for the specifications that do not drive them.
InitIdleSimple ==
    conversation_history = <<>>

\* Lines 95 and 113: both ledgers start empty; no coroutine has been started.
InitLedger ==
    /\ session_logs = <<>>
    /\ conversation_memory = <<>>
    /\ requests = [i \in RequestIds |-> NewRequest]

InitIdleAgent ==
    /\ agent_env = {}
    /\ api_clients = {}
    /\ local_models = {}
    /\ routing = NoCall
    /\ InitLedger

InitScore ==
    /\ InitRouter
    /\ InitIdleSimple
    /\ InitIdleAgent
    /\ InitIdleHosts

NextScore == RepeatSelect

\* The scorer and the router alone: pairs of select_best_model calls.
SpecScore == InitScore /\ [][NextScore]_vars

InitRouterSpec ==
    /\ InitRouter
    /\ InitIdleSimple
    /\ InitIdleAgent
    /\ InitIdleHosts

NextAdapter ==
    \/ GenerateResponseRouted
    \/ GenerateResponseNamed
    \/ GetAvailableModels
    \/ GetModelInfo

\* The execution adapter and the registry reads, under every credential set.
SpecAdapter == InitRouterSpec /\ [][NextAdapter]_vars

NextRouter ==
    \/ SelectBestModelCall
    \/ GenerateResponseRouted
    \/ GenerateResponseNamed
    \/ GetAvailableModels
    \/ GetModelInfo

\* The router as its callers drive it: any interleaving of its four methods.
SpecRouter == InitRouterSpec /\ [][NextRouter]_vars

\* The router, built without credentials and idle.
InitIdleRouter ==
    /\ env = {}
    /\ models = <<>>
    /\ sel = NoCall
    /\ prev = NoCall
    /\ result = NoResult
    /\ backend_call = NoBackendCall

\* MultimodalAIAgent.__init__ under every combination of credentials and of
\* local model loads that succeed.
InitAgent ==
    /\ agent_env \in SUBSET AgentCredentials
    /\ api_clients = InitializeApiClients(agent_env)
    /\ \E text_ok \in BOOLEAN, loaded \in 0..Len(ProcessorModels) :
           local_models = InitializeLocalModels(text_ok, loaded)
    /\ routing = NoCall
    /\ InitLedger

InitRouting ==
    /\ InitIdleRouter
    /\ InitIdleSimple
    /\ InitAgent
    /\ InitIdleHosts

NextRouting == IntelligentModelRoutingCall

\* MultimodalAIAgent's routing table, under every initialization.
SpecRouting == InitRouting /\ [][NextRouting]_vars

\* SimpleAIAgent.__init__ builds ActionAgent, whose OpenAI client needs
\* OPENAI_API_KEY (action_agent.py line 15), so that credential is present.
SimpleEnvs ==
    {{"OPENAI_API_KEY"}, {"OPENAI_API_KEY", "GOOGLE_API_KEY"}, Credentials}

InitSimple ==
    /\ env \in SimpleEnvs
    /\ models = InitializeModels(env)
    /\ sel = NoCall
    /\ prev = NoCall
    /\ result = NoResult
    /\ backend_call = NoBackendCall
    /\ conversation_history = <<>>
    /\ InitIdleAgent
    /\ InitIdleHosts

NextSimple ==
    \/ ProcessAction
    \/ ProcessConversation
    \/ DetermineTaskTypeCall

\* SimpleAIAgent serving one request after another.
SpecSimple == InitSimple /\ [][NextSimple]_vars

\* One credential set and one set of loaded models stand for all of them: no
\* line of the workflow or of the ledger reads a client or self.models.
InitAgentLedger ==
    /\ InitIdleRouter
    /\ InitIdleSimple
    /\ agent_env \in {{}, AgentCredentials}
    /\ api_clients = InitializeApiClients(agent_env)
    /\ local_models = InitializeLocalModels(TRUE, Len(ProcessorModels))
    /\ routing = NoCall
    /\ InitLedger
    /\ InitIdleHosts

NextAgent ==
    \/ StartRequest
    \/ CompleteRequest
    \/ CancelRequest
    \/ GetSessionStats

\* MultimodalAIAgent serving process_text_input coroutines on one event loop.
SpecAgent == InitAgentLedger /\ [][NextAgent]_vars

\* The registry of the two-backend scenario: router.models set by hand to fast
\* and strong, whose speed classes the scenario leaves open.
ScenarioRegistry(speed_fast, speed_strong) ==
    << Descriptor("fast", "none", "openai", "fast", {"speed", "general"}, 20, speed_fast),
       Descriptor("strong", "none", "openai", "strong", {"coding", "reasoning"}, 300,
                  speed_strong) >>

Speeds == {"fast", "medium", "slow"}

InitScenario ==
    /\ env = {}
    /\ \E sf \in Speeds, ss \in Speeds : models = ScenarioRegistry(sf, ss)
    /\ sel = NoCall
    /\ prev = NoCall
    /\ result = NoResult
    /\ backend_call = NoBackendCall
    /\ InitIdleSimple
    /\ InitIdleAgent
    /\ InitIdleHosts

\* The scorer and the router over the scenario's registry.
SpecScenario == InitScenario /\ [][NextScore]_vars

\* The router of a WorkingAgent, under a few of the credential sets.
LoopEnvs ==
    {{}, {"OPENAI_API_KEY"}, {"GOOGLE_API_KEY"}, Credentials}

InitLoop ==
    /\ env \in LoopEnvs
    /\ models = InitializeModels(env)
    /\ sel = NoCall
    /\ prev = NoCall
    /\ result = NoResult
    /\ backend_call = NoBackendCall
    /\ InitIdleSimple
    /\ InitIdleAgent
    /\ InitIdleHosts

NextLoop ==
    \/ SubmitCall
    \/ RunScheduledCall
    \/ BackendReturnsCall

\* generate_response coroutines submitted to one event loop.
SpecLoop == InitLoop /\ [][NextLoop]_vars

InitTelegram ==
    /\ InitIdleRouter
    /\ InitIdleSimple
    /\ InitIdleAgent
    /\ InitIdleHosts

NextTelegram ==
    \/ StartCommandUpdate
    \/ TextMessageUpdate

\* TelegramBot handling one update after another.
SpecTelegram == InitTelegram /\ [][NextTelegram]_vars

(***************************************************************************)
(* Claims about select_best_model                                          *)
(***************************************************************************)
\* C1: on a non-empty registry select_best_model returns a key of the registry,
\* and never the name of a backend whose credential was absent at initialization.
C1_SelectsRegisteredBackend ==
    (sel.called /\ models # <<>>) =>
        /\ sel.return \in Keys(models)
        /\ \A i \in DOMAIN Catalog :
               Catalog[i].credential \notin env => sel.return # Catalog[i].name

\* C1's case: a selection made while some backends were omitted for want of a
\* credential.
C1_Witness ==
    /\ sel.called
    /\ models # <<>>
    /\ Len(models) < Len(Catalog)
    /\ sel.return \in Keys(models)

\* The index in the registry of the backend a call returned.
ReturnedIndex(reg, call) ==
    CHOOSE i \in DOMAIN reg : reg[i].name = call.return

\* The indices holding the greatest score of a call.
TopScored(call) ==
    {i \in DOMAIN call.scores : \A j \in DOMAIN call.scores : call.scores[j] <= call.scores[i]}

\* C5 (as claimed): among the backends sharing the highest score the cheapest is
\* selected, and among those equal in score and cost the first registered.
C5_TieBrokenByCost ==
    (sel.called /\ models # <<>>) =>
        LET r == ReturnedIndex(models, sel)
        IN  \A j \in TopScored(sel) :
                /\ models[r].cost <= models[j].cost
                /\ models[j].cost = models[r].cost => r <= j

\* C6: with the registry fast/strong and budget 0.01, coding goes to strong, whose
\* score carries the over-budget penalty, and general goes to fast.
C6_ScenarioFastStrong ==
    (sel.called /\ sel.budget = 100) =>
        /\ sel.task_type = "coding" =>
               /\ sel.return = "strong"
               /\ models[2].cost > sel.budget
               /\ sel.scores[2] =
                      TaskScore(models[2], "coding")
                    + ComplexityScore(models[2], sel.complexity) - 20
               /\ sel.scores[2] > sel.scores[1]
        /\ sel.task_type = "general" => sel.return = "fast"

\* C6's case: the coding request under budget 0.01 was routed.
C6_Witness ==
    /\ sel.called
    /\ sel.budget = 100
    /\ sel.task_type = "coding"
    /\ sel.complexity = "medium"
    /\ sel.return = "strong"

\* Two remembered calls that differ in nothing but a budget that went up.
BudgetRaised ==
    /\ prev.called
    /\ sel.called
    /\ prev.task_type = sel.task_type
    /\ prev.complexity = sel.complexity
    /\ prev.budget <= sel.budget

\* C7: raising the budget, all else fixed, lowers no backend's score.
C7_BudgetMonotoneAbsolute ==
    BudgetRaised => \A i \in DOMAIN models : sel.scores[i] >= prev.scores[i]

\* C7's case: a budget raised across a backend's cost, whose score went up.
C7_Witness ==
    /\ BudgetRaised
    /\ prev.budget < sel.budget
    /\ \E i \in DOMAIN models : sel.scores[i] > prev.scores[i]

\* C8 (as claimed): when A scores strictly above B, raising the budget never
\* shrinks score(A) - score(B).
C8_BudgetMonotoneRelative ==
    BudgetRaised =>
        \A a \in DOMAIN models, b \in DOMAIN models :
            prev.scores[a] > prev.scores[b] =>
                sel.scores[a] - sel.scores[b] >= prev.scores[a] - prev.scores[b]

\* C8 (amended): when A scores strictly above B and B's cost is already within
\* the lower budget, raising the budget never shrinks score(A) - score(B).
C8_RelativeWhenLowerWithinBudget ==
    BudgetRaised =>
        \A a \in DOMAIN models, b \in DOMAIN models :
            (prev.scores[a] > prev.scores[b] /\ models[b].cost <= prev.budget) =>
                sel.scores[a] - sel.scores[b] >= prev.scores[a] - prev.scores[b]

\* C8's case: A above B, B within the lower budget, and the raise brought A
\* within budget, widening the gap.
C8_Witness ==
    /\ BudgetRaised
    /\ \E a \in DOMAIN models, b \in DOMAIN models :
           /\ prev.scores[a] > prev.scores[b]
           /\ models[b].cost <= prev.budget
           /\ models[a].cost > prev.budget
           /\ sel.scores[a] - sel.scores[b] > prev.scores[a] - prev.scores[b]

\* C14 (as claimed): with budget 0 and a non-empty registry select_best_model
\* returns a backend, and never one whose cost is greater than 0.
C14_ZeroBudgetExcludesPaid ==
    (sel.called /\ sel.budget = 0 /\ models # <<>>) =>
        /\ sel.return \in Keys(models)
        /\ Lookup(models, sel.return).cost = 0

(***************************************************************************)
(* Claims about generate_response and the router under interleaving        *)
(***************************************************************************)
\* The latest operation was a generate_response whose backend call raised.
BackendRaised ==
    /\ result.op = "generate_response"
    /\ backend_call.made
    /\ backend_call.outcome.kind = "raise"

\* C3 (as claimed): when the backend call raises, generate_response returns a
\* result with success false and a non-empty error string.
C3_FailureHasNonEmptyError ==
    BackendRaised =>
        /\ "success" \in DOMAIN result.value
        /\ result.value.success = FALSE
        /\ "error" \in DOMAIN result.value
        /\ result.value.error # ""

C10_EmptyRegistryFailsExplicitly ==
    models = <<>> =>
        /\ sel.called => (sel.return # NoneValue /\ sel.return \notin CatalogNames)
        /\ (result.op = "generate_response" /\ result.model_name = NoneValue) =>
               "error" \in DOMAIN result.value
        /\ ~backend_call.made

\* The latest operation was generate_response with a model name the registry
\* does not hold.
NamedUnregistered ==
    /\ result.op = "generate_response"
    /\ result.model_name # NoneValue
    /\ result.model_name \notin Keys(models)

\* C12: generate_response on a name that is not in the registry returns a result
\* carrying a non-empty error and no success, attempts no backend call, and
\* leaves the registry as initialize_models built it.
C12_UnregisteredNameFailsFast ==
    NamedUnregistered =>
        /\ "error" \in DOMAIN result.value
        /\ result.value.error # ""
        /\ "response" \notin DOMAIN result.value
        /\ ("success" \in DOMAIN result.value => ~result.value.success)
        /\ ~backend_call.made
        /\ models = InitializeModels(env)

\* C12's case: gpt-4 is asked for by name where no OPENAI_API_KEY registered it.
C12_Witness ==
    /\ NamedUnregistered
    /\ result.model_name = "gpt-4"
    /\ "ANTHROPIC_API_KEY" \in env

\* C13 (as claimed): every generate_response result carries a success flag, and
\* carries an error exactly when the flag is false.
C13_ErrorIffNotSuccess ==
    result.op = "generate_response" =>
        /\ "success" \in DOMAIN result.value
        /\ ("error" \in DOMAIN result.value) <=> ~result.value.success

BackendInitialized(model) ==
    CASE ProviderOf(model) = "openai" -> "openai_client" \in api_clients
      [] ProviderOf(model) = "anthropic" -> "anthropic_client" \in api_clients
      [] ProviderOf(model) = "google" -> "gemini_client" \in api_clients
      [] ProviderOf(model) = "huggingface" -> "hf_client" \in api_clients
      [] model = "blip" -> "blip" \in local_models
      [] model = "opus-mt" -> "translator" \in local_models
      [] OTHER -> "text" \in local_models

\* C2 (as claimed): the model a routing decision names is one whose client or
\* local model was initialized.
C2_RoutesOnlyToInitialized ==
    routing.called => BackendInitialized(routing.return.model)

(***************************************************************************)
(* Claims about the ledgers                                                *)
(***************************************************************************)
\* The latest SimpleAIAgent.process call ran a backend call that raised.
ProcessExecutionFailed ==
    /\ result.op = "process"
    /\ backend_call.made
    /\ backend_call.outcome.kind = "raise"

\* C4 (as claimed, for SimpleAIAgent): after a request whose execution failed the
\* ledger holds exactly one more entry than before, and that entry is marked
\* unsuccessful.
C4_FailedExecutionIsRecorded ==
    ProcessExecutionFailed =>
        /\ Len(conversation_history) = result.entries_before + 1
        /\ LET entry == conversation_history[Len(conversation_history)]
           IN  "success" \in DOMAIN entry /\ entry.success = FALSE

\* The MultimodalAIAgent side of C4, which the code keeps: a process_text_input
\* call whose execution raised has returned the error text, and both ledgers
\* hold it, session_logs with success False.
AgentFailedExecutionIsRecorded ==
    \A i \in RequestIds :
        (requests[i].pc = "returned" /\ requests[i].execution = "raise") =>
            /\ \E k \in DOMAIN session_logs :
                   /\ session_logs[k].input_data.text = requests[i].text
                   /\ session_logs[k].output = requests[i].value
                   /\ session_logs[k].success = FALSE
            /\ \E k \in DOMAIN conversation_memory :
                   /\ conversation_memory[k].user = requests[i].text
                   /\ conversation_memory[k].assistant = requests[i].value

AgentFailedExecutionWitness ==
    \E i \in RequestIds :
        requests[i].pc = "returned" /\ requests[i].execution = "raise"

\* The latest SimpleAIAgent.process call handed a text to log_interaction.
ProcessLogged ==
    /\ result.op = "process"
    /\ ~result.raised
    /\ Len(conversation_history) = result.entries_before + 1

\* The text process handed to log_interaction as output_text.
HandedOutput ==
    IF result.path = "action" THEN result.value ELSE result.value[3]

\* C16 (as claimed, for SimpleAIAgent): the output handed to log_interaction is
\* read back from conversation_history as it was handed in.
C16_LedgerRoundTrip ==
    ProcessLogged =>
        conversation_history[Len(conversation_history)].output = HandedOutput

(***************************************************************************)
(* Claims about MultimodalAIAgent's ledger                                 *)
(***************************************************************************)
\* The process_text_input calls that have returned.
Returned == {i \in RequestIds : requests[i].pc = "returned"}

\* C11 (as claimed): get_session_stats on an empty ledger returns a record whose
\* success_rate is 0.
C11_EmptyLedgerStatsZeroRate ==
    (result.op = "get_session_stats" /\ result.entries = 0) =>
        /\ "success_rate" \in DOMAIN result.value
        /\ result.value.success_rate[1] = 0

\* The total_cost part of C15: get_session_stats never reports a negative
\* total_cost.
AgentTotalCostNonNegative ==
    (result.op = "get_session_stats" /\ "total_cost" \in DOMAIN result.value) =>
        result.value.total_cost >= 0

RECURSIVE LoggedCost(_)
\* The costs of the entries the requests of S logged, added up.
LoggedCost(S) ==
    IF S = {} THEN 0
    ELSE LET i == CHOOSE i \in S : TRUE
         IN  requests[i].logged.cost + LoggedCost(S \ {i})

\* The MultimodalAIAgent side of C16, which the code keeps: every entry a
\* returned request logged is in session_logs where it was put, and the stats
\* over the ledger count each log_interaction call once.
AgentLedgerRoundTrip ==
    /\ \A i \in Returned :
           /\ requests[i].index \in DOMAIN session_logs
           /\ session_logs[requests[i].index] = requests[i].logged
    /\ session_logs # <<>> =>
           LET stats == SessionStats(session_logs, conversation_memory)
           IN  /\ stats.total_interactions = Cardinality(Returned)
               /\ \A m \in DOMAIN stats.model_usage :
                      stats.model_usage[m] =
                          Cardinality({i \in Returned : requests[i].logged.model_used = m})
               /\ \A i \in Returned :
                      requests[i].logged.model_used \in DOMAIN stats.model_usage
               /\ stats.total_cost = LoggedCost(Returned)

\* C17: no step removes, replaces or reorders an entry of session_logs: after
\* every step the earlier session_logs is a prefix of the later one.
C17_LedgerAppendOnly ==
    [][/\ Len(session_logs') >= Len(session_logs)
       /\ SubSeq(session_logs', 1, Len(session_logs)) = session_logs]_vars

\* C17's case: two entries have been appended and get_session_stats has read
\* the ledger since.
C17_Witness ==
    /\ Len(session_logs) = 2
    /\ session_logs[1] # session_logs[2]
    /\ result.op = "get_session_stats"
    /\ result.entries = 2

\* C18: when the write of the JSON line failed in the latest process_text_input,
\* the call has returned its response and the entry is the last of session_logs.
C18_LogWriteFailureIsCaught ==
    (result.op = "process_text_input" /\ ~result.write_ok) =>
        /\ requests[result.request].pc = "returned"
        /\ requests[result.request].value = result.final_response
        /\ Len(session_logs) = result.entries_before + 1
        /\ session_logs[Len(session_logs)] = requests[result.request].logged
        /\ session_logs[Len(session_logs)].output = result.final_response

\* C18's case: a successful execution whose log line could not be written.
C18_Witness ==
    /\ result.op = "process_text_input"
    /\ ~result.write_ok
    /\ result.final_response = "reply"

\* C19: once all the process_text_input requests have returned, session_logs
\* holds exactly one entry per request, each the entry that request logged.
C19_NoLostEntries ==
    Returned = RequestIds =>
        /\ Len(session_logs) = MaxRequests
        /\ \A i \in RequestIds :
               /\ requests[i].index \in DOMAIN session_logs
               /\ session_logs[requests[i].index] = requests[i].logged
        /\ \A i, j \in RequestIds :
               requests[i].index = requests[j].index => i = j

\* C19's case: all requests returned, and the one called first returned last,
\* so every other request ran while it was suspended.
C19_Witness ==
    /\ Returned = RequestIds
    /\ requests[1].index = MaxRequests

\* Entry k of both ledgers was put there by a request that returned.
OwnedByReturned(k) ==
    \E j \in Returned :
        /\ requests[j].index = k
        /\ session_logs[k] = requests[j].logged
        /\ k \in DOMAIN conversation_memory
        /\ conversation_memory[k].user = requests[j].text
        /\ conversation_memory[k].assistant = requests[j].value

\* C20: a cancelled request stays cancelled, and while a request is cancelled
\* every entry of session_logs and of conversation_memory belongs to a request
\* that returned, so none belongs to the cancelled one.
C20_CancelledNeverRecorded ==
    /\ []((\E i \in RequestIds : requests[i].pc = "cancelled") =>
             /\ Len(session_logs) = Cardinality(Returned)
             /\ Len(conversation_memory) = Cardinality(Returned)
             /\ \A k \in DOMAIN session_logs : OwnedByReturned(k))
    /\ [][\A i \in RequestIds :
             requests[i].pc = "cancelled" => requests'[i].pc = "cancelled"]_vars

\* C20's case: the first request was cancelled while suspended and a later one
\* has since returned and been logged.
C20_Witness ==
    /\ requests[1].pc = "cancelled"
    /\ requests[2].pc = "returned"
    /\ Len(session_logs) = 1

\* The SimpleAIAgent side of C18, which the code keeps as well: a failed write of
\* the log line leaves process returning and the entry in conversation_history.
SimpleLogWriteFailureIsCaught ==
    (result.op = "process" /\ result.log_write = "failed") =>
        /\ ~result.raised
        /\ Len(conversation_history) = result.entries_before + 1
        /\ conversation_history[Len(conversation_history)].input = result.user_input

(***************************************************************************)
(* Claims about SimpleAIAgent.process and determine_task_type              *)
(***************************************************************************)
\* For every input, which categories have a keyword in its lower-cased text.
KeywordsIn ==
    [u \in UserInputs |->
        LET t == Lower(Chars(u))
        IN  [coding |-> ContainsAny(t, {"code", "program", "function", "script", "debug"}),
             creative |-> ContainsAny(t, {"story", "creative", "poem", "imagine"}),
             analysis |-> ContainsAny(t, {"analyze", "compare", "evaluate", "pros", "cons"}),
             multilingual |->
                 ContainsAny(t, {"translate", "language", "spanish", "french"}),
             action |-> ContainsAny(t, ActionKeywords)]]

\* C23: determine_task_type returns a member of the closed set; the first of
\* coding, creative, analysis, multilingual with a keyword in the lower-cased
\* input wins, and an input with no keyword is general.
C23_TaskTypePriority ==
    result.op = "determine_task_type" =>
        LET k == KeywordsIn[result.user_input]
        IN  /\ result.value \in {"coding", "creative", "analysis", "multilingual", "general"}
            /\ k.coding => result.value = "coding"
            /\ (~k.coding /\ k.creative) => result.value = "creative"
            /\ (~k.coding /\ ~k.creative /\ k.analysis) => result.value = "analysis"
            /\ (~k.coding /\ ~k.creative /\ ~k.analysis /\ k.multilingual) =>
                   result.value = "multilingual"
            /\ (~k.coding /\ ~k.creative /\ ~k.analysis /\ ~k.multilingual) =>
                   result.value = "general"

\* C23's case: an input with a coding keyword (debug) and a creative one (poem).
C23_Witness ==
    /\ result.op = "determine_task_type"
    /\ result.user_input = "Debug my poem"
    /\ result.value = "coding"

\* C27: a process call whose lower-cased input contains an action keyword calls
\* the action agent and neither determine_task_type nor the router; any other
\* call reaches determine_task_type and the router and not the action agent.
C27_ExactlyOnePath ==
    result.op = "process" =>
        IF KeywordsIn[result.user_input].action
        THEN /\ result.path = "action"
             /\ result.calls = {"action_agent.process_request"}
             /\ result.task_type = NoneValue
             /\ ~backend_call.made
        ELSE /\ result.path = "conversation"
             /\ result.calls = {"determine_task_type", "router.generate_response"}
             /\ result.task_type \in TaskTypes

\* C27's case: an input whose keyword translate is both an action keyword and a
\* multilingual keyword goes to the action agent.
C27_Witness ==
    /\ result.op = "process"
    /\ result.user_input = "Translate this"
    /\ result.path = "action"
    /\ ~result.raised

(***************************************************************************)
(* Claims about the registry reads and the routed call                     *)
(***************************************************************************)
\* C24 (as claimed): get_model_info on a name that is not registered returns an
\* error, not an empty value, and leaves the registry as it was built.
C24_LookupOfAbsentNameFails ==
    (result.op = "get_model_info" /\ result.model_name \notin Keys(models)) =>
        /\ DOMAIN result.value # {}
        /\ "error" \in DOMAIN result.value
        /\ models = InitializeModels(env)

\* C25: no step of select_best_model, generate_response, get_available_models
\* or get_model_info changes the registry: the backends registered and the
\* strengths, cost and speed of each stay as they are.
C25_RegistryImmutable ==
    [][models' = models]_vars

\* C25's case: after a selection, a generate_response on a registered backend
\* has failed, with the registry still holding that backend.
C25_Witness ==
    /\ sel.called
    /\ result.op = "generate_response"
    /\ result.model_name = "claude-3-haiku"
    /\ backend_call.made
    /\ backend_call.outcome.kind = "raise"
    /\ "claude-3-haiku" \in Keys(models)
    /\ models = InitializeModels(env)

\* C26: a generate_response call without a model name executes the backend that
\* select_best_model gives for complexity medium and budget 1.0; every
\* registered backend is within that budget; and for task type general all
\* backends score alike and the first registered one is executed.
C26_RoutedCallUsesDefaults ==
    (result.op = "generate_response" /\ result.model_name = NoneValue
        /\ models # <<>>) =>
        /\ backend_call.made
        /\ backend_call.model =
               SelectBestModel(models, result.task_type, "medium", 10000)
        /\ \A i \in DOMAIN models : models[i].cost <= 10000
        /\ result.task_type = "general" =>
               /\ \A i, j \in DOMAIN models :
                      Score(models[i], "general", "medium", 10000)
                          = Score(models[j], "general", "medium", 10000)
               /\ backend_call.model = models[1].name

\* C26's case: a general request is executed on gpt-4, the first registered,
\* while the cheaper gemini-pro is registered too.
C26_Witness ==
    /\ result.op = "generate_response"
    /\ result.model_name = NoneValue
    /\ result.task_type = "general"
    /\ backend_call.made
    /\ backend_call.model = "gpt-4"
    /\ "gemini-pro" \in Keys(models)

(***************************************************************************)
(* Claims about the entries MultimodalAIAgent logs                         *)
(***************************************************************************)
\* The final responses of the model, each with whether it is non-empty and does
\* not start with the text Error.
ReadsAsSuccess ==
    [t \in {"reply", "", "Error: rate limit", "Error executing task: ",
            "Error executing task: Request timed out."} |->
        t # "" /\ ~StartsWith(Chars(t), Chars("Error"))]

\* C28: an entry of session_logs has success exactly when its output is
\* non-empty and does not start with Error; an execution that raised is logged
\* with the text 'Error executing task: ...', as a failure with confidence 0;
\* and a reply that starts with Error is logged as a failure.
C28_SuccessReadFromResponseText ==
    /\ \A k \in DOMAIN session_logs :
           session_logs[k].success <=> ReadsAsSuccess[session_logs[k].output]
    /\ \A i \in Returned :
           /\ requests[i].execution = "raise" =>
                  /\ requests[i].logged.output \in
                         {"Error executing task: ",
                          "Error executing task: Request timed out."}
                  /\ ~requests[i].logged.success
                  /\ requests[i].logged.confidence = 0
           /\ (requests[i].execution = "ok" /\ requests[i].value = "Error: rate limit") =>
                  ~requests[i].logged.success
           /\ (requests[i].execution = "ok" /\ requests[i].value = "reply") =>
                  requests[i].logged.success

\* C28's case: execute_with_model returned a reply that starts with Error, and
\* the entry logged for it is a failure.
C28_Witness ==
    \E i \in Returned :
        /\ requests[i].execution = "ok"
        /\ requests[i].value = "Error: rate limit"
        /\ session_logs[requests[i].index].output = "Error: rate limit"
        /\ ~session_logs[requests[i].index].success

\* C29: session_logs and conversation_memory have the same length in every
\* state, and a get_session_stats record reports conversation_length equal to
\* total_interactions.
C29_LedgerAndMemoryInStep ==
    /\ Len(session_logs) = Len(conversation_memory)
    /\ (result.op = "get_session_stats" /\ result.entries > 0) =>
           result.value.conversation_length = result.value.total_interactions

\* C29's case: one call completed, another raised CancelledError at its await,
\* and the stats were read afterwards.
C29_Witness ==
    /\ result.op = "get_session_stats"
    /\ result.entries = 1
    /\ Len(conversation_memory) = 1
    /\ \E i \in RequestIds : requests[i].pc = "cancelled"
    /\ \E i \in RequestIds : requests[i].pc = "returned"

\* What the loop does do: at any moment at most one generate_response call is
\* inside a provider call.
LoopRunsOneBackendCallAtATime ==
    \A i, j \in CallIds :
        (calls[i].pc = "in_backend" /\ calls[j].pc = "in_backend") => i = j

\* C21: one slow backend call does not stall unrelated concurrent requests:
\* while one generate_response call is waiting for its backend to answer,
\* another call scheduled on the same event loop can start its own backend call.
C21_SlowCallDoesNotStallOthers ==
    \A i, j \in CallIds :
        (i # j /\ calls[i].pc = "in_backend" /\ calls[j].pc = "scheduled")
            => ENABLED RunCall(j)

\* C22: every backend call is bounded by a per-call timeout: a
\* generate_response call that is inside its backend call can always go on to
\* return, whether or not the backend ever answers.
C22_BackendCallAlwaysReturns ==
    \A i \in CallIds :
        calls[i].pc = "in_backend" => ENABLED ReturnFromBackend(i)

\* C30: handle_message forwards a text message to the agent only when the
\* sender already has a session; a message from a user with no session only
\* creates a fresh session with empty history and is not forwarded; a forwarded
\* message appends exactly one entry to the sender's history if and only if the
\* agent callback returned without error; other users' sessions are unchanged.
C30_ForwardOnlyWithSession ==
    [][result'.op = "handle_message" =>
          LET u == result'.user_id
              had == u \in DOMAIN user_sessions
          IN  /\ result'.forwarded => had
              /\ ~had => /\ ~result'.forwarded
                          /\ user_sessions'[u] = FreshSession(u)
                          /\ user_sessions'[u].conversation_history = <<>>
              /\ result'.forwarded =>
                     LET before == user_sessions[u].conversation_history
                         after == user_sessions'[u].conversation_history
                     IN  IF result'.callback = "ok"
                         THEN /\ Len(after) = Len(before) + 1
                              /\ SubSeq(after, 1, Len(before)) = before
                         ELSE after = before
              /\ DOMAIN user_sessions' = DOMAIN user_sessions \cup {u}
              /\ \A v \in DOMAIN user_sessions \ {u} :
                     user_sessions'[v] = user_sessions[v]]_vars

\* A forwarded message whose callback returned has added the one entry to its
\* sender's history while another user holds a session with a history of its own.
C30_Witness ==
    /\ result.op = "handle_message"
    /\ result.forwarded
    /\ result.callback = "ok"
    /\ Len(user_sessions[result.user_id].conversation_history)
           = result.entries_before + 1
    /\ \E v \in DOMAIN user_sessions \ {result.user_id} :
           user_sessions[v].conversation_history # <<>>

====
